---- MODULE Spec2Model ----
(***************************************************************************)
(* A model of src/remote.c (libgit2): the remote entity, tip               *)
(* synchronisation (git_remote_update_tips) and the rename transaction     *)
(* (git_remote_rename).                                                    *)
(*                                                                         *)
(* Strings are sequences of one-character strings, so that the byte        *)
(* arithmetic of the code (strlen, strstr, splice, pointer offsets) is     *)
(* modelled as the code performs it.  The configuration store and the      *)
(* reference store are functions whose domain is the set of keys / names   *)
(* that exist.                                                             *)
(***************************************************************************)
EXTENDS Integers, Sequences, FiniteSets, TLC

VARIABLES
    remote,     \* the in-memory git_remote
    config,     \* the repository's configuration store: key -> value
    refs,       \* the reference store: name -> object id
    odb,        \* the object ids present in the object database
    heads,      \* remote->transport->refs, the advertised packets in order
    pc,         \* position of the running operation ("idle" between calls)
    tip_i,      \* update_tips: 1-based index of the next packet to examine
    run,        \* update_tips: what the current / last run did
    result,     \* return value of the last finished operation
    ren,        \* rename: the arguments and progress of the current / last call
    transport,  \* remote->transport: "none" (NULL), "closed" or "connected"
    op          \* the last call of another operation: arguments, outputs

vars == <<remote, config, refs, odb, heads, pc, tip_i, run, result, ren,
          transport, op>>

---------------------------------------------------------------------------
(* Bounds of the model *)

MaxHeads == 3
MaxRenames == 2

---------------------------------------------------------------------------
(* Strings and return codes *)

\* a NULL pointer: no sequence of one-character strings equals it
NULL == <<"NULL">>

GIT_ENOTFOUND == -3
GIT_EEXISTS == -4
GIT_EUSER == -7

\* object ids; ZeroOid is the all-zero id update_tips uses for "no such ref"
ZeroOid == 0

IsPrefix(p, s) == Len(p) <= Len(s) /\ SubSeq(s, 1, Len(p)) = p

\* the part of s from 0-based offset k on (the C expression s + k)
Tail0(s, k) == SubSeq(s, k + 1, Len(s))

GIT_REFS_REMOTES_DIR == <<"r","e","f","s","/","r","e","m","o","t","e","s","/">>
GIT_REFS_HEADS_DIR == <<"r","e","f","s","/","h","e","a","d","s","/">>
GIT_REFS_TAGS_DIR == <<"r","e","f","s","/","t","a","g","s","/">>
GIT_HEAD_FILE == <<"H","E","A","D">>
GIT_FETCH_HEAD_FILE == <<"F","E","T","C","H","_","H","E","A","D">>

Str_v == <<"v">>
Str_d == <<"d">>
Str_o == <<"o">>
Str_n == <<"n">>
Str_up == <<"u", "p">>

\* the names a caller asks git_remote_rename for: free, taken, with a
\* character no ref name may hold, and empty
NewNames == { Str_o, Str_up, Str_n, <<"b", " ">>, <<>> }

\* "refs/remotes/<n>/", the namespace of the tracking refs of remote n
TrackingDir(n) == GIT_REFS_REMOTES_DIR \o n \o <<"/">>

\* strstr: the 0-based offset of the first occurrence of needle in hay, or -1
StrStr(hay, needle) ==
    LET hits == { k \in 0..(Len(hay) - Len(needle)) :
                    SubSeq(hay, k + 1, k + Len(needle)) = needle }
    IN  IF hits = {} THEN -1 ELSE CHOOSE k \in hits : \A j \in hits : k <= j

\* git_buf_splice: replace del characters of s at 0-based offset where by ins
Splice(s, where, del, ins) ==
    SubSeq(s, 1, where) \o ins \o SubSeq(s, where + del + 1, Len(s))

---------------------------------------------------------------------------
(* The refspec engine (a collaborator; only its contract is used) *)

EndsWithStar(s) == Len(s) > 0 /\ s[Len(s)] = "*"

\* a parsed refspec; the no-op refspec has neither src nor dst
EmptyRefspec == [src |-> NULL, dst |-> NULL, force |-> FALSE]

Refspec(src, dst, force) == [src |-> src, dst |-> dst, force |-> force]

InvalidRefChars == {"^", " ", ":", "~", "?", "["}

\* a ref name or pattern: no forbidden character, no empty path component,
\* and a '*' only as the whole last component
ValidRefPattern(s) ==
    /\ Len(s) > 0
    /\ s[1] # "/" /\ s[Len(s)] # "/"
    /\ \A k \in 1..Len(s) :
          /\ s[k] \notin InvalidRefChars
          /\ (s[k] = "/" /\ k < Len(s)) => s[k + 1] # "/"
          /\ s[k] = "*" => (k = Len(s) /\ (k = 1 \/ s[k - 1] = "/"))

\* "[+]<src>:<dst>"
git_refspec__serialize(spec) ==
    (IF spec.force THEN <<"+">> ELSE <<>>)
        \o (IF spec.src = NULL THEN <<>> ELSE spec.src)
        \o <<":">>
        \o (IF spec.dst = NULL THEN <<>> ELSE spec.dst)

\* parse "[+]<src>:<dst>"; both sides are patterns or neither is
git_refspec__parse(text) ==
    LET force == Len(text) > 0 /\ text[1] = "+"
        body == IF force THEN Tail(text) ELSE text
        colons == { k \in 1..Len(body) : body[k] = ":" }
        colon == IF colons = {} THEN 0 ELSE CHOOSE k \in colons : \A j \in colons : j <= k
        src == SubSeq(body, 1, colon - 1)
        dst == SubSeq(body, colon + 1, Len(body))
    IN  IF /\ colon > 0
           /\ ValidRefPattern(src) /\ ValidRefPattern(dst)
           /\ EndsWithStar(src) <=> EndsWithStar(dst)
          THEN [rc |-> 0, spec |-> Refspec(src, dst, force)]
          ELSE [rc |-> -1, spec |-> EmptyRefspec]

\* "refs/tags/*:refs/tags/*"
GIT_REFSPEC_TAGS ==
    [src |-> GIT_REFS_TAGS_DIR \o <<"*">>, dst |-> GIT_REFS_TAGS_DIR \o <<"*">>,
     force |-> FALSE]

\* fnmatch of a pattern whose only wildcard is a trailing '*'
git_refspec_src_matches(spec, name) ==
    /\ spec.src # NULL
    /\ IF EndsWithStar(spec.src)
         THEN IsPrefix(SubSeq(spec.src, 1, Len(spec.src) - 1), name)
         ELSE spec.src = name

\* the destination name a matched source name maps to
git_refspec_transform_r(spec, name) ==
    IF ~EndsWithStar(spec.dst)
      THEN spec.dst
      ELSE SubSeq(spec.dst, 1, Len(spec.dst) - 1) \o Tail0(name, Len(spec.src) - 1)

---------------------------------------------------------------------------
(* The reference store (a collaborator) *)

\* rejects empty names and decorated names such as the peel marker v^{}
git_reference_is_valid_name(name) ==
    /\ Len(name) > 0
    /\ \A k \in 1..Len(name) : name[k] \notin InvalidRefChars \cup {"*"}

\* rename a ref; without force an existing target name is GIT_EEXISTS
git_reference_rename(rs, name, new_name, force) ==
    IF name \notin DOMAIN rs THEN [rc |-> GIT_ENOTFOUND, refs |-> rs]
    ELSE IF new_name \in DOMAIN rs /\ ~force THEN [rc |-> GIT_EEXISTS, refs |-> rs]
    ELSE [rc |-> 0,
          refs |-> [x \in (DOMAIN rs \ {name}) \cup {new_name} |->
                      IF x = new_name THEN rs[name] ELSE rs[x]]]

\* the object id of a ref, or GIT_ENOTFOUND
git_reference_name_to_oid(rs, name) ==
    IF name \in DOMAIN rs THEN [rc |-> 0, oid |-> rs[name]]
                          ELSE [rc |-> GIT_ENOTFOUND, oid |-> ZeroOid]

\* create a direct ref; without force an existing name is GIT_EEXISTS
git_reference_create_oid(rs, name, oid, force) ==
    IF name \in DOMAIN rs /\ ~force
      THEN [rc |-> GIT_EEXISTS, refs |-> rs]
      ELSE [rc |-> 0, refs |-> (name :> oid) @@ rs]

git_odb_exists(db, oid) == oid \in db

---------------------------------------------------------------------------
(* The configuration store (a collaborator) *)

\* the key "<section>.<name>.<var>"
Key(section, name, var) == <<section, name, var>>

git_config_get_string(cfg, key) ==
    IF key \in DOMAIN cfg THEN [rc |-> 0, val |-> cfg[key]]
                           ELSE [rc |-> GIT_ENOTFOUND, val |-> NULL]

git_config_set_string(cfg, key, val) == (key :> val) @@ cfg

git_config_delete(cfg, key) ==
    IF key \in DOMAIN cfg
      THEN [rc |-> 0, cfg |-> [k \in DOMAIN cfg \ {key} |-> cfg[k]]]
      ELSE [rc |-> GIT_ENOTFOUND, cfg |-> cfg]

\* every key of section "<section>.<old>" moves to "<section>.<new>"
git_config_rename_section(cfg, section, old, new) ==
    LET moved == { k \in DOMAIN cfg : k[1] = section /\ k[2] = old }
        kept == DOMAIN cfg \ moved
    IN  [k \in kept \cup { Key(section, new, m[3]) : m \in moved } |->
            IF k[1] = section /\ k[2] = new /\ Key(section, old, k[3]) \in moved
              THEN cfg[Key(section, old, k[3])]
              ELSE cfg[k]]

TAGOPT_ALL == <<"--tags">>
TAGOPT_NONE == <<"--no-tags">>

---------------------------------------------------------------------------
(* The remote entity and its persistence *)

\* git_remote_new: name and fetch may be NULL; a bad fetch refspec fails
git_remote_new(name, url, fetch) ==
    LET p == IF fetch = NULL THEN [rc |-> 0, spec |-> EmptyRefspec]
             ELSE git_refspec__parse(fetch)
    IN  [rc |-> IF p.rc < 0 THEN -1 ELSE 0,
         remote |-> [name |-> name, url |-> url, pushurl |-> NULL,
                     fetch |-> p.spec, push |-> EmptyRefspec,
                     download_tags |-> IF name = NULL THEN "NONE" ELSE "UNSET",
                     cb_update_tips |-> FALSE]]

\* read and parse the refspec stored under a key
parse_remote_refspec(cfg, key) ==
    LET g == git_config_get_string(cfg, key)
    IN  IF g.rc < 0 THEN [rc |-> g.rc, spec |-> EmptyRefspec]
        ELSE git_refspec__parse(g.val)

\* resolve an unset download_tags from "remote.<name>.tagopt"; rdFail: the
\* store fails the read
download_tags_value(r, cfg, rdFail) ==
    IF r.download_tags # "UNSET" THEN [rc |-> 0, download_tags |-> r.download_tags]
    ELSE LET g == IF rdFail THEN [rc |-> -1, val |-> NULL]
                  ELSE git_config_get_string(cfg, Key("remote", r.name, "tagopt"))
         IN  [rc |-> IF g.rc = GIT_ENOTFOUND THEN 0 ELSE g.rc,
              download_tags |->
                  IF g.rc = 0 /\ g.val = TAGOPT_NONE THEN "NONE"
                  ELSE IF g.rc = 0 /\ g.val = TAGOPT_ALL THEN "ALL"
                  ELSE "AUTO"]

\* git_remote_load.  rdFail names the key whose read the store fails ("none":
\* no failure).  out is TRUE when *out was assigned the loaded remote.
git_remote_load(cfg, name, rdFail) ==
    LET url == IF rdFail = "url" THEN [rc |-> -1, val |-> NULL]
               ELSE git_config_get_string(cfg, Key("remote", name, "url"))
        pushurl == IF rdFail = "pushurl" THEN [rc |-> -1, val |-> NULL]
                   ELSE git_config_get_string(cfg, Key("remote", name, "pushurl"))
        fetch == IF rdFail = "fetch" THEN [rc |-> -1, spec |-> EmptyRefspec]
                 ELSE parse_remote_refspec(cfg, Key("remote", name, "fetch"))
        push == IF rdFail = "push" THEN [rc |-> -1, spec |-> EmptyRefspec]
                ELSE parse_remote_refspec(cfg, Key("remote", name, "push"))
        r == [name |-> name, url |-> url.val, pushurl |-> pushurl.val,
              fetch |-> fetch.spec, push |-> push.spec,
              download_tags |-> "UNSET", cb_update_tips |-> FALSE]
        tags == download_tags_value(r, cfg, rdFail = "tagopt")
    IN  IF url.rc < 0 THEN [rc |-> url.rc, out |-> FALSE, remote |-> r]
        ELSE IF pushurl.rc < 0 /\ pushurl.rc # GIT_ENOTFOUND
          THEN [rc |-> -1, out |-> FALSE, remote |-> r]
        ELSE IF fetch.rc < 0 /\ fetch.rc # GIT_ENOTFOUND
          THEN [rc |-> -1, out |-> FALSE, remote |-> r]
        ELSE IF push.rc < 0 /\ push.rc # GIT_ENOTFOUND
          THEN [rc |-> -1, out |-> FALSE, remote |-> r]
        \* the failure of download_tags_value leaves error at 0
        ELSE IF tags.rc < 0 THEN [rc |-> 0, out |-> FALSE, remote |-> r]
        ELSE [rc |-> 0, out |-> TRUE,
              remote |-> [r EXCEPT !.download_tags = tags.download_tags]]

\* "refs/heads/test:refs/remotes/<name>/test" must parse as a fetch refspec
ensure_remote_name_is_valid(name) ==
    IF name = NULL \/ name = <<>> THEN -1
    ELSE git_refspec__parse(
             GIT_REFS_HEADS_DIR \o <<"t","e","s","t">> \o <<":">>
                 \o GIT_REFS_REMOTES_DIR \o name \o <<"/","t","e","s","t">>).rc

\* write "remote.<remote_name>.fetch" or ".push"; an empty refspec is skipped
update_config_refspec(cfg, remote_name, spec, var, wrFail) ==
    IF spec.src = NULL \/ spec.dst = NULL THEN [rc |-> 0, cfg |-> cfg]
    ELSE IF wrFail THEN [rc |-> -1, cfg |-> cfg]
    ELSE [rc |-> 0,
          cfg |-> git_config_set_string(cfg, Key("remote", remote_name, var),
                                        git_refspec__serialize(spec))]

\* (mutant) for AUTO a present key is left as it is
SaveTagopt_keeps(cfg, r) ==
    LET key == Key("remote", r.name, "tagopt")
    IN  IF r.download_tags = "ALL" THEN git_config_set_string(cfg, key, TAGOPT_ALL)
        ELSE IF r.download_tags = "NONE" THEN git_config_set_string(cfg, key, TAGOPT_NONE)
        ELSE cfg

\* the tagopt step of save: set for ALL and NONE, else remove a present key
SaveTagopt(cfg, r) ==
    LET key == Key("remote", r.name, "tagopt")
    IN  IF r.download_tags = "ALL" THEN git_config_set_string(cfg, key, TAGOPT_ALL)
        ELSE IF r.download_tags = "NONE" THEN git_config_set_string(cfg, key, TAGOPT_NONE)
        ELSE IF git_config_get_string(cfg, key).rc = 0 THEN git_config_delete(cfg, key).cfg
        ELSE cfg

\* (mutant) a pushurl key is left when the remote has no pushurl
SavePushurl_keeps(cfg, r) ==
    IF r.pushurl # NULL
      THEN git_config_set_string(cfg, Key("remote", r.name, "pushurl"), r.pushurl)
      ELSE cfg

\* the pushurl step of save: set when the remote has one, else delete the key
SavePushurl(cfg, r) ==
    IF r.pushurl # NULL
      THEN git_config_set_string(cfg, Key("remote", r.name, "pushurl"), r.pushurl)
      ELSE git_config_delete(cfg, Key("remote", r.name, "pushurl")).cfg

\* (mutant) the delete of an absent pushurl key counts as a failure
DeleteResult_strict(rc) == rc

\* what save makes of the result of deleting the pushurl key: an absent key
\* is no error
DeleteResult(rc) == IF rc = GIT_ENOTFOUND THEN 0 ELSE rc

SaveFaults == {"none", "url", "pushurl", "fetch", "push", "tagopt"}

\* git_remote_save.  fault names the step at which the store fails ("none": no
\* failure); the writes of the earlier steps stay.
git_remote_save(cfg, r, fault) ==
    LET c1 == git_config_set_string(cfg, Key("remote", r.name, "url"), r.url)
        c2 == SavePushurl(c1, r)
        d == IF r.pushurl # NULL THEN 0
             ELSE DeleteResult(git_config_delete(c1, Key("remote", r.name, "pushurl")).rc)
        f == update_config_refspec(c2, r.name, r.fetch, "fetch", fault = "fetch")
        u == update_config_refspec(f.cfg, r.name, r.push, "push", fault = "push")
    IN  IF ensure_remote_name_is_valid(r.name) < 0 THEN [rc |-> -1, cfg |-> cfg]
        ELSE IF fault = "url" THEN [rc |-> -1, cfg |-> cfg]
        ELSE IF fault = "pushurl" \/ d < 0 THEN [rc |-> -1, cfg |-> c1]
        ELSE IF f.rc < 0 THEN [rc |-> -1, cfg |-> c2]
        ELSE IF u.rc < 0 THEN [rc |-> -1, cfg |-> f.cfg]
        ELSE IF fault = "tagopt" THEN [rc |-> -1, cfg |-> u.cfg]
        ELSE [rc |-> 0, cfg |-> SaveTagopt(u.cfg, r)]

---------------------------------------------------------------------------
(* The rename transaction: git_remote_rename *)

\* (mutant) the check that the new name is free always passes
ensure_remote_doesnot_exist_passes(cfg, name) == 0

\* loading the name must yield GIT_ENOTFOUND
ensure_remote_doesnot_exist(cfg, name) ==
    LET l == git_remote_load(cfg, name, "none")
    IN  IF l.rc = GIT_ENOTFOUND THEN 0
        ELSE IF l.rc < 0 THEN l.rc
        ELSE GIT_EEXISTS

\* (mutant) every remote takes the path of a remote without a name
IsAnonymous_always(r) == TRUE

\* (mutant) no remote is taken to be anonymous
IsAnonymous_never(r) == FALSE

\* !remote->name
IsAnonymous(r) == r.name = NULL

rename_remote_config_section(cfg, old_name, new_name) ==
    git_config_rename_section(cfg, "remote", old_name, new_name)

\* the keys "branch.<x>.remote" whose value is the old name
BranchKeysOf(cfg, old_name) ==
    { k \in DOMAIN cfg : k[1] = "branch" /\ k[3] = "remote" /\ cfg[k] = old_name }

\* update_config_entries_cb applied to the keys in done
update_branch_remote_config_entry(cfg, done, new_name) ==
    [k \in DOMAIN cfg |-> IF k \in done THEN new_name ELSE cfg[k]]

\* rename_cb: whether a ref is collected for renaming
rename_cb(ref, old_name) == IsPrefix(GIT_REFS_REMOTES_DIR, ref)

\* the name rename_one_remote_reference gives a collected ref:
\* "refs/remotes/" new_name (reference_name + strlen("refs/remotes/") + strlen(old_name))
RenamedRefName(reference_name, old_name, new_name) ==
    GIT_REFS_REMOTES_DIR \o new_name
        \o Tail0(reference_name, Len(GIT_REFS_REMOTES_DIR) + Len(old_name))

\* the offset of that pointer lies beyond the terminating NUL of the name
RenameReadsOutOfBounds(reference_name, old_name) ==
    Len(GIT_REFS_REMOTES_DIR) + Len(old_name) > Len(reference_name)

rename_one_remote_reference(rs, reference_name, old_name, new_name) ==
    IF reference_name \notin DOMAIN rs THEN [rc |-> GIT_ENOTFOUND, refs |-> rs]
    ELSE git_reference_rename(rs, reference_name,
                              RenamedRefName(reference_name, old_name, new_name), FALSE)

RECURSIVE RenameEach(_, _, _, _, _)
\* the loop of rename_remote_references over the collected names, in order;
\* failAt: the position at which the store fails (0: nowhere)
RenameEach(rs, names, old_name, new_name, failAt) ==
    IF names = <<>> THEN [rc |-> 0, refs |-> rs]
    ELSE IF failAt = 1 THEN [rc |-> -1, refs |-> rs]
    ELSE LET one == rename_one_remote_reference(rs, names[1], old_name, new_name)
         IN  IF one.rc < 0 THEN one
             ELSE RenameEach(one.refs, Tail(names), old_name, new_name,
                             IF failAt = 0 THEN 0 ELSE failAt - 1)

\* the orders in which the reference store may enumerate a set of names
Orders(S) ==
    { q \in [1..Cardinality(S) -> S] : \A j, k \in 1..Cardinality(S) : q[j] = q[k] => j = k }

\* (mutant) a failing callback is not reported
ProblematicRc_ignored(cbRet) == 0

\* what rename_fetch_refspecs returns after the problematic-refspec callback
ProblematicRc(cbRet) == IF cbRet < 0 THEN GIT_EUSER ELSE 0

\* (mutant) any destination is taken to have the standard layout
DstPrefix_any(name) == <<":">>

\* ":refs/remotes/<name>/", searched for in the serialized refspec
DstPrefix(name) == <<":">> \o GIT_REFS_REMOTES_DIR \o name \o <<"/">>

\* (mutant) the new name is inserted and the old one is kept
RenameSpliceLen_none(name) == 0

\* the number of characters the new name takes the place of
RenameSpliceLen(name) == Len(name)

\* rename_fetch_refspecs.  cbRet: what the problematic-refspec callback
\* returns if called; wrFail: the store fails the write of the refspec.
\* calls: the texts the callback was called with.
rename_fetch_refspecs(cfg, r, new_name, cbRet, wrFail) ==
    LET serialized == git_refspec__serialize(r.fetch)
        reported == [rc |-> ProblematicRc(cbRet), remote |-> r,
                     cfg |-> cfg, calls |-> <<serialized>>]
        dst_prefix == DstPrefix(r.name)
        pos == StrStr(serialized, dst_prefix)
        spliced == Splice(serialized, pos + Len(<<":">> \o GIT_REFS_REMOTES_DIR),
                          RenameSpliceLen(r.name), new_name)
        parsed == git_refspec__parse(spliced)
        written == update_config_refspec(cfg, new_name, parsed.spec, "fetch", wrFail)
    IN  IF r.fetch.src = NULL /\ r.fetch.dst = NULL
          THEN [rc |-> 0, remote |-> r, cfg |-> cfg, calls |-> <<>>]
        \* is it an in-memory remote?
        ELSE IF r.name = NULL THEN reported
        \* does the dst part of the refspec follow the expected standard format?
        ELSE IF pos < 0 THEN reported
        ELSE IF parsed.rc < 0
          THEN [rc |-> -1, remote |-> [r EXCEPT !.fetch = EmptyRefspec],
                cfg |-> cfg, calls |-> <<>>]
        ELSE [rc |-> written.rc, remote |-> [r EXCEPT !.fetch = parsed.spec],
              cfg |-> written.cfg, calls |-> <<>>]

\* the call fails: it returns rc, having stopped in the named step
RenameFails(call, step, rc) ==
    /\ ren' = [call EXCEPT !.failed_at = step, !.done = TRUE]
    /\ result' = rc
    /\ pc' = "idle"

\* Entry of git_remote_rename: the two checks of the new name.
git_remote_rename_begin ==
    /\ pc = "idle"
    /\ ren.count < MaxRenames
    /\ \E new_name \in NewNames :
         LET call == [new_name |-> new_name, cb_ret |-> 0, cb_calls |-> <<>>,
                      count |-> ren.count + 1, saves |-> 0,
                      anonymous |-> IsAnonymous(remote), failed_at |-> "none",
                      done |-> FALSE,
                      pre |-> [remote |-> remote, config |-> config, refs |-> refs]]
             exists == ensure_remote_doesnot_exist(config, new_name)
             valid == ensure_remote_name_is_valid(new_name)
         IN  IF exists < 0 THEN RenameFails(call, "exists", exists)
             ELSE IF valid < 0 THEN RenameFails(call, "valid", valid)
             ELSE /\ ren' = call
                  /\ pc' = IF IsAnonymous(remote) THEN "rename_anonymous"
                                                  ELSE "rename_section"
                  /\ UNCHANGED result
    /\ UNCHANGED <<remote, config, refs, odb, heads, tip_i, run, transport, op>>

\* The path of a remote without a name: the refspec step, the name, one save.
git_remote_rename_anonymous ==
    /\ pc = "rename_anonymous"
    /\ \E cbRet \in {0, -1}, fault \in SaveFaults :
         LET f == rename_fetch_refspecs(config, remote, ren.new_name, cbRet, FALSE)
             named == [f.remote EXCEPT !.name = ren.new_name]
             saved == git_remote_save(f.cfg, named, fault)
             call == [ren EXCEPT !.cb_calls = f.calls, !.cb_ret = cbRet]
         IN  IF f.rc < 0
               THEN /\ RenameFails(call, "fetch", f.rc)
                    /\ remote' = f.remote
                    /\ config' = f.cfg
               ELSE /\ remote' = named
                    /\ config' = saved.cfg
                    /\ ren' = [call EXCEPT !.saves = 1, !.done = TRUE,
                                           !.failed_at = IF saved.rc < 0 THEN "save"
                                                                         ELSE "none"]
                    /\ result' = saved.rc
                    /\ pc' = "idle"
    /\ UNCHANGED <<refs, odb, heads, tip_i, run, transport, op>>

\* Step a: the section "remote.<old>" becomes "remote.<new>".
git_remote_rename_section ==
    /\ pc = "rename_section"
    /\ \E fail \in BOOLEAN :
         IF fail
           THEN RenameFails(ren, "section", -1) /\ UNCHANGED config
           ELSE /\ config' = rename_remote_config_section(config, remote.name, ren.new_name)
                /\ pc' = "rename_branches"
                /\ UNCHANGED <<ren, result>>
    /\ UNCHANGED <<remote, refs, odb, heads, tip_i, run, transport, op>>

\* Step b: every "branch.<x>.remote" naming the old remote names the new one;
\* a failing write ends the enumeration after the entries in done.
git_remote_rename_branches ==
    /\ pc = "rename_branches"
    /\ LET keys == BranchKeysOf(config, remote.name)
       IN  \E done \in SUBSET keys :
             /\ config' = update_branch_remote_config_entry(config, done, ren.new_name)
             /\ IF done = keys
                  THEN pc' = "rename_refs" /\ UNCHANGED <<ren, result>>
                  ELSE RenameFails(ren, "branches", -1)
    /\ UNCHANGED <<remote, refs, odb, heads, tip_i, run, transport, op>>

\* Step c: rename_remote_references.  A name shorter than the offset the
\* code adds to it makes the code read past its end: the process may die
\* there, or go on with what it read.
git_remote_rename_references ==
    /\ pc = "rename_refs"
    /\ LET collected == { n \in DOMAIN refs : rename_cb(n, remote.name) }
           wild == \E n \in collected : RenameReadsOutOfBounds(n, remote.name)
       IN  \E order \in Orders(collected), failAt \in 0..Cardinality(collected),
              outcome \in IF wild THEN {"dies", "goes on"} ELSE {"defined"} :
             LET r == RenameEach(refs, order, remote.name, ren.new_name, failAt)
             IN  IF outcome = "dies"
                   THEN /\ pc' = "crashed"
                        /\ UNCHANGED <<refs, ren, result>>
                   ELSE /\ refs' = r.refs
                        /\ IF r.rc < 0
                             THEN RenameFails(ren, "refs", r.rc)
                             ELSE pc' = "rename_fetch" /\ UNCHANGED <<ren, result>>
    /\ UNCHANGED <<remote, config, odb, heads, tip_i, run, transport, op>>

\* Step d: the fetch refspec.
git_remote_rename_fetch ==
    /\ pc = "rename_fetch"
    /\ \E cbRet \in {0, -1}, wrFail \in BOOLEAN :
         LET f == rename_fetch_refspecs(config, remote, ren.new_name, cbRet, wrFail)
             call == [ren EXCEPT !.cb_calls = f.calls, !.cb_ret = cbRet]
         IN  /\ remote' = f.remote
             /\ config' = f.cfg
             /\ IF f.rc < 0
                  THEN RenameFails(call, "fetch", f.rc)
                  ELSE /\ ren' = call
                       /\ pc' = "rename_name"
                       /\ UNCHANGED result
    /\ UNCHANGED <<refs, odb, heads, tip_i, run, transport, op>>

\* Step e: the in-memory name.
git_remote_rename_name ==
    /\ pc = "rename_name"
    /\ remote' = [remote EXCEPT !.name = ren.new_name]
    /\ ren' = [ren EXCEPT !.done = TRUE]
    /\ result' = 0
    /\ pc' = "idle"
    /\ UNCHANGED <<config, refs, odb, heads, tip_i, run, transport, op>>

---------------------------------------------------------------------------
(* Tip synchronisation: git_remote_update_tips *)

\* (mutant) the scan starts at the first packet even when it is HEAD
TipsStartIndex_always_first(hs) == 1

\* HEAD is only allowed to be the first in the list: where the scan starts
TipsStartIndex(hs) == IF hs[1].name = GIT_HEAD_FILE THEN 2 ELSE 1

\* (mutant) download_tags ALL is not told from AUTO: every tag the fetch
\* refspec does not match is an auto-tag
TipClassify_all_as_auto(r, name) ==
    IF git_refspec_src_matches(r.fetch, name)
      THEN [tracked |-> TRUE, autotag |-> FALSE,
            dst |-> git_refspec_transform_r(r.fetch, name)]
      ELSE IF r.download_tags # "NONE"
        THEN [tracked |-> git_refspec_src_matches(GIT_REFSPEC_TAGS, name),
              autotag |-> TRUE,
              dst |-> name]
        ELSE [tracked |-> FALSE, autotag |-> FALSE, dst |-> name]

\* whether a head is tracked, under which name, and whether as an auto-tag
TipClassify(r, name) ==
    IF git_refspec_src_matches(r.fetch, name)
      THEN [tracked |-> TRUE, autotag |-> FALSE,
            dst |-> git_refspec_transform_r(r.fetch, name)]
      ELSE IF r.download_tags # "NONE"
        THEN [tracked |-> git_refspec_src_matches(GIT_REFSPEC_TAGS, name),
              autotag |-> r.download_tags # "ALL",
              dst |-> name]
        ELSE [tracked |-> FALSE, autotag |-> FALSE, dst |-> name]

\* (mutant) every write is forced
TipForce_always(autotag) == TRUE

\* (mutant) no write is forced
TipForce_never(autotag) == FALSE

\* the force argument of the write of a tracked head
TipForce(autotag) == ~autotag

\* (mutant) auto-tags are followed whether or not their object is present
TipAutotagSkips_never(autotag, exists) == FALSE

\* an auto-tag is followed only when its object is already in the object database
TipAutotagSkips(autotag, exists) == autotag /\ ~exists

\* (mutant) the comparison with the current value is lost
TipUnchanged_never(old, oid) == FALSE

\* the ref already has the advertised value: no write, no notification
TipUnchanged(old, oid) == old = oid

\* (mutant) the test for GIT_EEXISTS is lost: any failed write is let through
TipWriteTolerated_failed(rc) == rc < 0 \/ rc = 0

\* (mutant) the scan goes on whatever the write returned
TipWriteTolerated_all(rc) == TRUE

\* whether the result of the write lets the scan go on to the notification
TipWriteTolerated(rc) == ~(rc < 0 /\ rc # GIT_EEXISTS)

Event(i, pkt, kind, c, old) ==
    [idx |-> i, name |-> pkt.name, oid |-> pkt.oid, kind |-> kind,
     dst |-> c.dst, autotag |-> c.autotag, old |-> old,
     notified |-> FALSE, abort |-> FALSE]

NoClass == [tracked |-> FALSE, autotag |-> FALSE, dst |-> NULL]

\* One iteration of the scan on packet pkt.  rdFail / wrFail: the reference
\* store fails the read / the write; cbRet: what the update_tips callback
\* returns if it is called.  Yields the new reference store and the event.
TipEntry(r, rs, db, i, pkt, rdFail, wrFail, cbRet) ==
    LET c == TipClassify(r, pkt.name)
        rd == git_reference_name_to_oid(rs, c.dst)
        old == IF rd.rc = GIT_ENOTFOUND THEN ZeroOid ELSE rd.oid
        wr == IF wrFail THEN [rc |-> -1, refs |-> rs]
              ELSE git_reference_create_oid(rs, c.dst, pkt.oid, TipForce(c.autotag))
    IN  IF pkt.type # "REF"
          THEN [refs |-> rs, ev |-> Event(i, pkt, "nonref", NoClass, ZeroOid)]
        ELSE IF ~git_reference_is_valid_name(pkt.name)
          THEN [refs |-> rs, ev |-> Event(i, pkt, "invalid", NoClass, ZeroOid)]
        ELSE IF ~c.tracked
          THEN [refs |-> rs, ev |-> Event(i, pkt, "untracked", NoClass, ZeroOid)]
        ELSE IF TipAutotagSkips(c.autotag, git_odb_exists(db, pkt.oid))
          THEN [refs |-> rs, ev |-> Event(i, pkt, "noobject", c, ZeroOid)]
        ELSE IF rdFail
          THEN [refs |-> rs,
                ev |-> [Event(i, pkt, "readfail", c, ZeroOid) EXCEPT !.abort = TRUE]]
        ELSE IF TipUnchanged(old, pkt.oid)
          THEN [refs |-> rs, ev |-> Event(i, pkt, "same", c, old)]
        ELSE IF ~TipWriteTolerated(wr.rc)
          THEN [refs |-> rs,
                ev |-> [Event(i, pkt, "writefail", c, old) EXCEPT !.abort = TRUE]]
        ELSE [refs |-> wr.refs,
              ev |-> [Event(i, pkt, IF wr.rc = GIT_EEXISTS THEN "exists" ELSE "written",
                            c, old)
                      EXCEPT !.notified = r.cb_update_tips,
                             !.abort = r.cb_update_tips /\ cbRet < 0]]

RECURSIVE TipScan(_, _, _, _, _)
\* the scan from packet i on when no read or write fails and no callback
\* returns a negative value: the reference store it leaves
TipScan(r, rs, db, hs, i) ==
    IF i > Len(hs) THEN rs
    ELSE TipScan(r, TipEntry(r, rs, db, i, hs[i], FALSE, FALSE, 0).refs, db, hs, i + 1)

\* git_remote_update_tips from entry to return 0, undisturbed: the reference
\* store it leaves
CleanRun(r, rs, db, hs) ==
    IF Len(hs) = 0 THEN rs
    ELSE IF hs[1].name = GIT_HEAD_FILE
      THEN TipScan(r, git_reference_create_oid(rs, GIT_FETCH_HEAD_FILE, hs[1].oid, TRUE).refs,
                   db, hs, TipsStartIndex(hs))
      ELSE TipScan(r, rs, db, hs, TipsStartIndex(hs))

\* the number of refs a run wrote in its scan
Written(rn) == Cardinality({ k \in 1..Len(rn.log) : rn.log[k].kind = "written" })

\* Entry of git_remote_update_tips up to the start of the scan.
git_remote_update_tips_begin ==
    /\ pc = "idle"
    /\ transport # "none"      \* the call reads remote->transport->refs
    /\ \E wrFail \in BOOLEAN :
         LET fresh == [second |-> run.done /\ result = 0, done |-> FALSE,
                       fetch_head |-> "none", log |-> <<>>, start |-> refs,
                       prev_written |-> Written(run),
                       retry |-> run.done /\ result < 0,
                       origin |-> IF run.done /\ result < 0 THEN run.origin ELSE refs]
         IN  IF Len(heads) = 0
               THEN /\ ~wrFail
                    /\ run' = [fresh EXCEPT !.done = TRUE]
                    /\ result' = 0
                    /\ UNCHANGED <<refs, pc, tip_i>>
             ELSE IF heads[1].name = GIT_HEAD_FILE
               THEN IF wrFail
                      THEN /\ run' = [fresh EXCEPT !.done = TRUE, !.fetch_head = "failed"]
                           /\ result' = -1
                           /\ UNCHANGED <<refs, pc, tip_i>>
                      ELSE /\ refs' = git_reference_create_oid(
                                         refs, GIT_FETCH_HEAD_FILE, heads[1].oid, TRUE).refs
                           /\ run' = [fresh EXCEPT !.fetch_head = "written"]
                           /\ pc' = "tips"
                           /\ tip_i' = TipsStartIndex(heads)
                           /\ UNCHANGED result
               ELSE /\ ~wrFail
                    /\ run' = fresh
                    /\ pc' = "tips"
                    /\ tip_i' = TipsStartIndex(heads)
                    /\ UNCHANGED <<refs, result>>
    /\ UNCHANGED <<remote, config, odb, heads, ren, transport, op>>

\* One iteration of the scan, or its abort through on_error.
git_remote_update_tips_entry ==
    /\ pc = "tips"
    /\ tip_i <= Len(heads)
    /\ \E fault \in {"none", "read", "write", "callback"} :
         LET o == TipEntry(remote, refs, odb, tip_i, heads[tip_i],
                           fault = "read", fault = "write",
                           IF fault = "callback" THEN -1 ELSE 0)
         IN  /\ refs' = o.refs
             /\ IF o.ev.abort
                  THEN /\ run' = [run EXCEPT !.log = Append(@, o.ev), !.done = TRUE]
                       /\ pc' = "idle"
                       /\ result' = -1
                       /\ UNCHANGED tip_i
                  ELSE /\ run' = [run EXCEPT !.log = Append(@, o.ev)]
                       /\ tip_i' = tip_i + 1
                       /\ UNCHANGED <<pc, result>>
    /\ UNCHANGED <<remote, config, odb, heads, ren, transport, op>>

\* The scan has passed the last packet: success.
git_remote_update_tips_end ==
    /\ pc = "tips"
    /\ tip_i > Len(heads)
    /\ pc' = "idle"
    /\ result' = 0
    /\ run' = [run EXCEPT !.done = TRUE]
    /\ UNCHANGED <<remote, config, refs, odb, heads, tip_i, ren, transport, op>>

---------------------------------------------------------------------------
(* Inputs of the tip synchronisation runs *)

RefPkt(name, oid) == [type |-> "REF", name |-> name, oid |-> oid]
FlushPkt == [type |-> "FLUSH", name |-> NULL, oid |-> ZeroOid]

BranchV == GIT_REFS_HEADS_DIR \o Str_v
TagV == GIT_REFS_TAGS_DIR \o Str_v
PeeledTagV == TagV \o <<"^", "{", "}">>

RefPkts ==
    { RefPkt(GIT_HEAD_FILE, 1), RefPkt(BranchV, 1), RefPkt(TagV, 2),
      RefPkt(PeeledTagV, 2) }

RECURSIVE SeqsUpTo(_, _)
\* the sequences without repetition over S of length at most n
SeqsUpTo(S, n) ==
    IF n = 0 THEN { <<>> }
    ELSE LET shorter == SeqsUpTo(S, n - 1)
         IN  shorter \cup
             { Append(s, x) : <<s, x>> \in
                 { p \in shorter \X S :
                     /\ Len(p[1]) = n - 1
                     /\ \A k \in 1..Len(p[1]) : p[1][k] # p[2] } }

\* an advertisement: ref packets, and possibly the flush packet that ends it
HeadLists ==
    SeqsUpTo(RefPkts, MaxHeads) \cup
    { Append(s, FlushPkt) : s \in SeqsUpTo(RefPkts, MaxHeads - 1) \ { <<>> } }

\* "+refs/heads/*:refs/remotes/<n>/*"
StandardFetch(n) ==
    Refspec(GIT_REFS_HEADS_DIR \o <<"*">>, TrackingDir(n) \o <<"*">>, TRUE)

TipFetchSpecs ==
    { StandardFetch(Str_o),
      \* "refs/heads/*:refs/tags/*": branches land in the tag namespace
      Refspec(GIT_REFS_HEADS_DIR \o <<"*">>, GIT_REFS_TAGS_DIR \o <<"*">>, FALSE),
      \* "refs/tags/*:refs/tags/*": tags are fetched directly
      Refspec(GIT_REFS_TAGS_DIR \o <<"*">>, GIT_REFS_TAGS_DIR \o <<"*">>, FALSE),
      \* "HEAD:refs/remotes/o/HEAD"
      Refspec(GIT_HEAD_FILE, TrackingDir(Str_o) \o GIT_HEAD_FILE, FALSE) }

\* the local repository before the first run: its refs and its objects
TipRepos ==
    { [refs |-> <<>>, odb |-> {1, 2}],
      [refs |-> (TagV :> 1), odb |-> {1, 2}],
      [refs |-> (TrackingDir(Str_o) \o Str_v :> 2), odb |-> {1}] }

NoRename ==
    [new_name |-> NULL, cb_ret |-> 0, cb_calls |-> <<>>, count |-> 0, saves |-> 0,
     anonymous |-> FALSE, failed_at |-> "none", done |-> FALSE,
     pre |-> [remote |-> NULL, config |-> <<>>, refs |-> <<>>]]

\* no other operation has been called yet
NoOp == [kind |-> "none", count |-> 0, rc |-> 0, pre |-> NULL, arg |-> NULL,
         out |-> NULL, seen |-> <<>>]

IdleRun == [second |-> FALSE, done |-> FALSE, fetch_head |-> "none",
            log |-> <<>>, start |-> <<>>, prev_written |-> 0,
            retry |-> FALSE, origin |-> <<>>]

InitTips ==
    /\ \E f \in TipFetchSpecs, t \in {"NONE", "AUTO", "ALL"}, cb \in BOOLEAN :
         remote = [name |-> Str_o, url |-> <<"u", "1">>, pushurl |-> NULL,
                   fetch |-> f, push |-> EmptyRefspec, download_tags |-> t,
                   cb_update_tips |-> cb]
    /\ config = <<>>
    /\ \E rp \in TipRepos : refs = rp.refs /\ odb = rp.odb
    /\ heads \in HeadLists
    /\ pc = "idle"
    /\ tip_i = 1
    /\ run = IdleRun
    /\ result = 0
    /\ ren = NoRename
    /\ transport = "connected"
    /\ op = NoOp

NextTips ==
    \/ git_remote_update_tips_begin
    \/ git_remote_update_tips_entry
    \/ git_remote_update_tips_end

SpecTips == InitTips /\ [][NextTips]_vars

---------------------------------------------------------------------------
(* Inputs of the rename transaction *)

Url1 == <<"u", "1">>
Url2 == <<"u", "2">>
Url3 == <<"u", "3">>

\* "+refs/heads/*:refs/custom/*": a destination outside refs/remotes/
CustomFetch ==
    Refspec(GIT_REFS_HEADS_DIR \o <<"*">>,
            <<"r","e","f","s","/","c","u","s","t","o","m","/","*">>, TRUE)

\* what the configuration holds of remote "o"
ConfigsOfO ==
    { (Key("remote", Str_o, "url") :> Url1)
          @@ (Key("remote", Str_o, "fetch") :> git_refspec__serialize(StandardFetch(Str_o))),
      (Key("remote", Str_o, "url") :> Url1)
          @@ (Key("remote", Str_o, "fetch") :> git_refspec__serialize(CustomFetch)),
      (Key("remote", Str_o, "url") :> Url1) }

\* what it holds of remote "up": nothing, a remote, a remote whose fetch
\* value is no refspec
ConfigsOfUp ==
    { <<>>,
      (Key("remote", Str_up, "url") :> Url2)
          @@ (Key("remote", Str_up, "fetch") :> git_refspec__serialize(StandardFetch(Str_up))),
      (Key("remote", Str_up, "url") :> Url2)
          @@ (Key("remote", Str_up, "fetch") :> <<"b", " ">>) }

BranchLinks ==
    (Key("branch", Str_v, "remote") :> Str_o) @@ (Key("branch", Str_d, "remote") :> Str_up)

RenameConfigs == { a @@ b @@ BranchLinks : a \in ConfigsOfO, b \in ConfigsOfUp }

RenameRefStores ==
    { <<>>,
      (TrackingDir(Str_o) \o Str_v :> 1),
      (TrackingDir(Str_o) \o Str_v :> 1) @@ (TrackingDir(Str_up) \o Str_v :> 2),
      (TrackingDir(Str_o) \o Str_v :> 1) @@ (TrackingDir(Str_n) \o Str_v :> 2),
      (TrackingDir(Str_o) \o Str_v :> 1) @@ (GIT_REFS_TAGS_DIR \o Str_v :> 2)
          @@ (GIT_REFS_HEADS_DIR \o Str_v :> 1) }

\* the remote in memory: "o" as loaded, or a remote made without a name
RenameRemotes(cfg) ==
    { git_remote_load(cfg, Str_o, "none").remote,
      git_remote_new(NULL, Url3, NULL).remote,
      git_remote_new(NULL, Url3, git_refspec__serialize(StandardFetch(Str_v))).remote }

InitRename ==
    /\ config \in RenameConfigs
    /\ remote \in RenameRemotes(config)
    /\ refs \in RenameRefStores
    /\ odb = {1, 2}
    /\ heads = <<>>
    /\ pc = "idle"
    /\ tip_i = 1
    /\ run = IdleRun
    /\ result = 0
    /\ ren = NoRename
    /\ transport = "none"
    /\ op = NoOp

NextRename ==
    \/ git_remote_rename_begin
    \/ git_remote_rename_anonymous
    \/ git_remote_rename_section
    \/ git_remote_rename_branches
    \/ git_remote_rename_references
    \/ git_remote_rename_fetch
    \/ git_remote_rename_name

SpecRename == InitRename /\ [][NextRename]_vars

---------------------------------------------------------------------------
(* The other operations on a remote: setters, save, load, add, connect, ls *)

MaxOps == 2

\* the record of a call that has returned
Called(kind, arg, rc, out, seen) ==
    [kind |-> kind, count |-> op.count + 1, rc |-> rc,
     pre |-> [remote |-> remote, config |-> config, prev |-> [kind |-> op.kind, rc |-> op.rc]],
     arg |-> arg, out |-> out, seen |-> seen]

\* a call may start: nothing is running and the budget of calls is not spent
MayCall == pc = "idle" /\ op.count < MaxOps

\* git_remote_set_url
git_remote_set_url ==
    /\ MayCall
    /\ \E url \in {Url1, Url2} :
         /\ remote' = [remote EXCEPT !.url = url]
         /\ op' = Called("set_url", url, 0, NULL, <<>>)
    /\ result' = 0
    /\ UNCHANGED <<config, refs, odb, heads, pc, tip_i, run, ren, transport>>

\* git_remote_set_pushurl: NULL clears the push url
git_remote_set_pushurl ==
    /\ MayCall
    /\ \E url \in {NULL, Url2} :
         /\ remote' = [remote EXCEPT !.pushurl = url]
         /\ op' = Called("set_pushurl", url, 0, NULL, <<>>)
    /\ result' = 0
    /\ UNCHANGED <<config, refs, odb, heads, pc, tip_i, run, ren, transport>>

\* the refspec texts a caller hands to the setters: two that parse, one not
SpecTexts ==
    { git_refspec__serialize(StandardFetch(Str_up)),
      git_refspec__serialize(CustomFetch),
      <<"b", " ">> }

\* the refspec after git_remote_set_fetchspec / _pushspec: src and dst are
\* taken from the parsed text, the other fields stay
SetSpec(old, parsed) == [old EXCEPT !.src = parsed.src, !.dst = parsed.dst]

\* git_remote_set_fetchspec
git_remote_set_fetchspec ==
    /\ MayCall
    /\ \E text \in SpecTexts :
         LET p == git_refspec__parse(text)
         IN  /\ remote' = IF p.rc < 0 THEN remote
                          ELSE [remote EXCEPT !.fetch = SetSpec(@, p.spec)]
             /\ result' = IF p.rc < 0 THEN -1 ELSE 0
             /\ op' = Called("set_fetchspec", text, IF p.rc < 0 THEN -1 ELSE 0, NULL, <<>>)
    /\ UNCHANGED <<config, refs, odb, heads, pc, tip_i, run, ren, transport>>

\* git_remote_set_pushspec
git_remote_set_pushspec ==
    /\ MayCall
    /\ \E text \in SpecTexts :
         LET p == git_refspec__parse(text)
         IN  /\ remote' = IF p.rc < 0 THEN remote
                          ELSE [remote EXCEPT !.push = SetSpec(@, p.spec)]
             /\ result' = IF p.rc < 0 THEN -1 ELSE 0
             /\ op' = Called("set_pushspec", text, IF p.rc < 0 THEN -1 ELSE 0, NULL, <<>>)
    /\ UNCHANGED <<config, refs, odb, heads, pc, tip_i, run, ren, transport>>

\* git_remote_set_autotag
git_remote_set_autotag ==
    /\ MayCall
    /\ \E value \in {"AUTO", "NONE", "ALL"} :
         /\ remote' = [remote EXCEPT !.download_tags = value]
         /\ op' = Called("set_autotag", value, 0, NULL, <<>>)
    /\ UNCHANGED <<config, refs, odb, heads, pc, tip_i, run, result, ren, transport>>

\* git_remote_set_callbacks: whether an update_tips callback is registered
git_remote_set_callbacks ==
    /\ MayCall
    /\ \E cb \in BOOLEAN :
         /\ remote' = [remote EXCEPT !.cb_update_tips = cb]
         /\ op' = Called("set_callbacks", cb, 0, NULL, <<>>)
    /\ UNCHANGED <<config, refs, odb, heads, pc, tip_i, run, result, ren, transport>>

\* a call of git_remote_save on the remote in memory
git_remote_save_call ==
    /\ MayCall
    /\ \E fault \in SaveFaults :
         LET saved == git_remote_save(config, remote, fault)
         IN  /\ config' = saved.cfg
             /\ result' = saved.rc
             /\ op' = Called("save", fault, saved.rc, NULL, <<>>)
    /\ UNCHANGED <<remote, refs, odb, heads, pc, tip_i, run, ren, transport>>

LoadFaults == {"none", "url", "pushurl", "fetch", "push", "tagopt"}

\* a call of git_remote_load; the remote it delivers is another object than
\* the one in memory: out.remote, with out.assigned telling whether *out was
\* assigned
git_remote_load_call ==
    /\ MayCall
    /\ \E name \in {Str_o, Str_n}, rdFail \in LoadFaults :
         LET l == git_remote_load(config, name, rdFail)
         IN  /\ result' = l.rc
             /\ op' = Called("load", [name |-> name, fault |-> rdFail], l.rc,
                             [assigned |-> l.out, remote |-> l.remote], <<>>)
    /\ UNCHANGED <<remote, config, refs, odb, heads, pc, tip_i, run, ren, transport>>

\* git_remote_add: a remote with the default fetch refspec is made and saved.
\* out: whether *out was assigned.  When git_remote_new fails, on_error
\* frees *out, which this call never assigned (wild).
git_remote_add(cfg, name, url, fault) ==
    LET fetch == <<"+">> \o GIT_REFS_HEADS_DIR \o <<"*", ":">>
                     \o GIT_REFS_REMOTES_DIR \o name \o <<"/", "*">>
        n == git_remote_new(name, url, fetch)
        saved == git_remote_save(cfg, n.remote, fault)
    IN  IF n.rc < 0
          THEN [rc |-> -1, cfg |-> cfg, out |-> FALSE, remote |-> n.remote, wild |-> TRUE]
        ELSE IF saved.rc < 0
          THEN [rc |-> -1, cfg |-> saved.cfg, out |-> FALSE, remote |-> n.remote,
                wild |-> FALSE]
        ELSE [rc |-> 0, cfg |-> saved.cfg, out |-> TRUE, remote |-> n.remote,
              wild |-> FALSE]

\* a call of git_remote_add
git_remote_add_call ==
    /\ MayCall
    /\ \E name \in {Str_o, Str_n, <<"b", " ">>}, fault \in SaveFaults :
         LET a == git_remote_add(config, name, Url2, fault)
         IN  \E outcome \in IF a.wild THEN {"dies", "goes on"} ELSE {"defined"} :
               IF outcome = "dies"
                 THEN /\ pc' = "crashed"
                      /\ UNCHANGED <<config, result, op>>
                 ELSE /\ config' = a.cfg
                      /\ result' = a.rc
                      /\ op' = Called("add", name, a.rc,
                                      [assigned |-> a.out, remote |-> a.remote], <<>>)
                      /\ UNCHANGED pc
    /\ UNCHANGED <<remote, refs, odb, heads, tip_i, run, ren, transport>>

\* git_remote_connect: the transport is attached only when it connected
git_remote_connect ==
    /\ MayCall
    /\ \E ok \in BOOLEAN :
         /\ transport' = IF ok THEN "connected" ELSE transport
         /\ result' = IF ok THEN 0 ELSE -1
         /\ op' = Called("connect", ok, IF ok THEN 0 ELSE -1, NULL, <<>>)
    /\ UNCHANGED <<remote, config, refs, odb, heads, pc, tip_i, run, ren>>

\* git_remote_disconnect: a connected transport is closed and stays attached
git_remote_disconnect ==
    /\ MayCall
    /\ transport' = IF transport = "connected" THEN "closed" ELSE transport
    /\ op' = Called("disconnect", NULL, 0, NULL, <<>>)
    /\ UNCHANGED <<remote, config, refs, odb, heads, pc, tip_i, run, result, ren>>

\* (mutant) packets of every kind are handed to the visitor
LsIsRef_any(p) == TRUE

\* git_remote_ls hands only the packets of type GIT_PKT_REF to the visitor
LsIsRef(p) == p.type = "REF"

\* (mutant) only a negative return of the visitor ends the enumeration
LsStops_negative(ret) == ret < 0

\* the visitor's return value ends the enumeration
LsStops(ret) == ret # 0

RECURSIVE LsScan(_, _, _, _)
\* the loop of git_remote_ls from packet i on; ret[k] is what the visitor
\* returns for packet k; seen: the indices handed to the visitor so far
LsScan(hs, i, ret, seen) ==
    IF i > Len(hs) THEN [rc |-> 0, seen |-> seen]
    ELSE IF ~LsIsRef(hs[i]) THEN LsScan(hs, i + 1, ret, seen)
    ELSE IF LsStops(ret[i]) THEN [rc |-> GIT_EUSER, seen |-> Append(seen, i)]
    ELSE LsScan(hs, i + 1, ret, Append(seen, i))

\* git_remote_ls
git_remote_ls(t, hs, ret) ==
    IF t # "connected" THEN [rc |-> -1, seen |-> <<>>]
    ELSE LsScan(hs, 1, ret, <<>>)

\* a call of git_remote_ls with a visitor that returns ret[k] for packet k
git_remote_ls_call ==
    /\ MayCall
    /\ \E ret \in [1..Len(heads) -> {0, 1, -1}] :
         LET l == git_remote_ls(transport, heads, ret)
         IN  /\ result' = l.rc
             /\ op' = Called("ls", ret, l.rc, NULL, l.seen)
    /\ UNCHANGED <<remote, config, refs, odb, heads, pc, tip_i, run, ren, transport>>

NextOps ==
    \/ git_remote_set_url
    \/ git_remote_set_pushurl
    \/ git_remote_set_fetchspec
    \/ git_remote_set_pushspec
    \/ git_remote_set_autotag
    \/ git_remote_set_callbacks
    \/ git_remote_save_call
    \/ git_remote_load_call
    \/ git_remote_add_call
    \/ git_remote_connect
    \/ git_remote_disconnect
    \/ git_remote_ls_call

---------------------------------------------------------------------------
(* Persistence: a remote that was constructed, and what the configuration
   held before *)

\* what the configuration may hold under "remote.o" before the remote in
\* memory is saved: nothing; another remote's values; values that are no
\* refspec under fetch or push
PriorConfigs ==
    { <<>>,
      (Key("remote", Str_o, "url") :> Url3)
          @@ (Key("remote", Str_o, "pushurl") :> Url3)
          @@ (Key("remote", Str_o, "fetch") :> git_refspec__serialize(CustomFetch))
          @@ (Key("remote", Str_o, "tagopt") :> TAGOPT_ALL),
      (Key("remote", Str_o, "url") :> Url3)
          @@ (Key("remote", Str_o, "pushurl") :> Url3)
          @@ (Key("remote", Str_o, "tagopt") :> TAGOPT_NONE),
      (Key("remote", Str_o, "url") :> Url3)
          @@ (Key("remote", Str_o, "tagopt") :> <<"-", "x">>),
      (Key("remote", Str_o, "url") :> Url3)
          @@ (Key("remote", Str_o, "fetch") :> <<"b", " ">>),
      (Key("remote", Str_o, "url") :> Url3)
          @@ (Key("remote", Str_o, "fetch") :> git_refspec__serialize(StandardFetch(Str_o)))
          @@ (Key("remote", Str_o, "push") :> <<"b", " ">>),
      (Key("remote", Str_o, "pushurl") :> Url3) }

\* a remote from git_remote_new, named "o" or without a name, after
\* git_remote_set_pushurl and git_remote_set_autotag calls
ConstructedRemotes ==
    { [git_remote_new(name, Url1, fetch).remote
          EXCEPT !.pushurl = pushurl, !.download_tags = IF tags = "AS NEW" THEN @ ELSE tags] :
        name \in {Str_o, NULL},
        fetch \in {NULL, git_refspec__serialize(StandardFetch(Str_o))},
        pushurl \in {NULL, Url2},
        tags \in {"AS NEW", "AUTO", "NONE", "ALL"} }

InitStore ==
    /\ config \in PriorConfigs
    /\ remote \in ConstructedRemotes
    /\ refs = <<>>
    /\ odb = {}
    /\ heads = <<>>
    /\ pc = "idle"
    /\ tip_i = 1
    /\ run = IdleRun
    /\ result = 0
    /\ ren = NoRename
    /\ transport = "none"
    /\ op = NoOp

NextStore ==
    \/ git_remote_save_call
    \/ git_remote_load_call
    \/ git_remote_add_call

SpecStore == InitStore /\ [][NextStore]_vars

---------------------------------------------------------------------------
(* Listing: the transport of a remote and what it advertised *)

\* a remote with no transport, with one that was disconnected, or with a
\* connected one, and the advertisement the transport holds
InitLs ==
    /\ remote = git_remote_new(Str_o, Url1, NULL).remote
    /\ config = <<>>
    /\ refs = <<>>
    /\ odb = {}
    /\ heads \in HeadLists
    /\ pc = "idle"
    /\ tip_i = 1
    /\ run = IdleRun
    /\ result = 0
    /\ ren = NoRename
    /\ transport \in {"none", "closed", "connected"}
    /\ op = NoOp

NextLs ==
    \/ git_remote_connect
    \/ git_remote_disconnect
    \/ git_remote_ls_call

SpecLs == InitLs /\ [][NextLs]_vars

---------------------------------------------------------------------------
(* The life of a remote: renames among all the other operations *)

\* a repository with remotes, a remote in memory that is connected, and a
\* branch the other side advertises
InitName ==
    /\ config = (Key("remote", Str_o, "url") :> Url1)
                    @@ (Key("remote", Str_o, "fetch")
                            :> git_refspec__serialize(StandardFetch(Str_o)))
                    @@ BranchLinks
    /\ remote \in RenameRemotes(config)
    /\ refs = (TrackingDir(Str_o) \o Str_v :> 2)
    /\ odb = {1, 2}
    /\ heads = << RefPkt(BranchV, 1) >>
    /\ pc = "idle"
    /\ tip_i = 1
    /\ run = IdleRun
    /\ result = 0
    /\ ren = NoRename
    /\ transport = "connected"
    /\ op = NoOp

\* the other operations a life interleaves with its renames
MaxNameOps == 1

\* a life: the renames, among them at most MaxNameOps calls of the other
\* operations and one tip synchronisation
NextName ==
    \/ NextRename
    \/ op.count < MaxNameOps /\ git_remote_set_url
    \/ op.count < MaxNameOps /\ git_remote_set_pushurl
    \/ op.count < MaxNameOps /\ git_remote_set_fetchspec
    \/ op.count < MaxNameOps /\ git_remote_set_pushspec
    \/ op.count < MaxNameOps /\ git_remote_set_autotag
    \/ op.count < MaxNameOps /\ git_remote_set_callbacks
    \/ op.count < MaxNameOps /\ git_remote_save_call
    \/ op.count < MaxNameOps /\ git_remote_load_call
    \/ op.count < MaxNameOps /\ git_remote_add_call
    \/ op.count < MaxNameOps /\ git_remote_connect
    \/ op.count < MaxNameOps /\ git_remote_disconnect
    \/ op.count < MaxNameOps /\ git_remote_ls_call
    \/ ~run.done /\ git_remote_update_tips_begin
    \/ git_remote_update_tips_entry
    \/ git_remote_update_tips_end

SpecName == InitName /\ [][NextName]_vars

---------------------------------------------------------------------------
(* Properties of tip synchronisation *)

Log == run.log
Events == { Log[k] : k \in 1..Len(Log) }
RunSucceeded == pc = "idle" /\ run.done /\ result = 0
Notified == { e \in Events : e.notified }
IsTagName(name) == name # NULL /\ IsPrefix(GIT_REFS_TAGS_DIR, name)

\* packet k of the advertisement passes every skip of the scan
Tracked(k) ==
    /\ k >= TipsStartIndex(heads)
    /\ heads[k].type = "REF"
    /\ git_reference_is_valid_name(heads[k].name)
    /\ TipClassify(remote, heads[k].name).tracked
    /\ TipClassify(remote, heads[k].name).autotag => git_odb_exists(odb, heads[k].oid)

\* two tracked packets map to one destination with different object ids
Conflicting ==
    \E j, k \in 1..Len(heads) :
        /\ j # k /\ Tracked(j) /\ Tracked(k)
        /\ TipClassify(remote, heads[j].name).dst = TipClassify(remote, heads[k].name).dst
        /\ heads[j].oid # heads[k].oid

\* C1 as stated: a second successful run with the same advertisement and the
\* same object database writes no ref and notifies nobody.
C1_SecondRunSilent ==
    (RunSucceeded /\ run.second)
        => (Written(run) = 0 /\ run.fetch_head = "none" /\ Notified = {})

\* C1 as amended: when no two tracked packets conflict on a destination, a
\* second successful run leaves every ref unchanged (its only write is the
\* unconditional re-write of FETCH_HEAD with the value it has), and it notifies
\* only for auto-tags whose non-forced write was rejected with GIT_EEXISTS.
C1_SecondRunChangesNothing ==
    (RunSucceeded /\ run.second /\ ~Conflicting)
        => /\ refs = run.start
           /\ Written(run) = 0
           /\ \A e \in Notified : e.kind = "exists" /\ e.autotag

\* the second run re-examined, and skipped, what the first run had written
C1_Witness ==
    /\ RunSucceeded /\ run.second /\ ~Conflicting
    /\ run.prev_written > 0
    /\ \E e \in Events : e.kind = "same"

\* the packet the scan is about to examine
AtPacket == pc = "tips" /\ tip_i <= Len(heads)
AbsentAutoTag(pkt) ==
    /\ remote.download_tags = "AUTO"
    /\ pkt.type = "REF"
    /\ IsTagName(pkt.name)
    /\ ~git_odb_exists(odb, pkt.oid)

\* C2 as stated: with download_tags Auto, examining an advertised tag whose
\* object is absent never changes the reference store, whatever the refspec.
C2_AbsentTagNeverWritten ==
    [][(AtPacket /\ AbsentAutoTag(heads[tip_i])) => refs' = refs]_vars

\* C2 as amended: with download_tags Auto, examining an advertised tag that
\* the fetch refspec's source does not match and whose object is absent never
\* changes the reference store.
C2_AbsentUnmatchedTagNeverWritten ==
    [][(/\ AtPacket
        /\ AbsentAutoTag(heads[tip_i])
        /\ ~git_refspec_src_matches(remote.fetch, heads[tip_i].name)) => refs' = refs]_vars

\* the scan skipped a valid advertised tag because its object is absent
C2_Witness ==
    \E e \in Events :
        /\ e.kind = "noobject"
        /\ AbsentAutoTag([type |-> "REF", name |-> e.name, oid |-> e.oid])
        /\ ~git_refspec_src_matches(remote.fetch, e.name)
        /\ e.dst \notin DOMAIN refs

\* the packet is handled as an auto-tag and a different local ref has its name
AutoTagCollision(pkt) ==
    /\ pkt.type = "REF"
    /\ git_reference_is_valid_name(pkt.name)
    /\ TipClassify(remote, pkt.name).tracked
    /\ TipClassify(remote, pkt.name).autotag
    /\ git_odb_exists(odb, pkt.oid)
    /\ pkt.name \in DOMAIN refs
    /\ refs[pkt.name] # pkt.oid

\* C3: an auto-tag that collides with a different local ref leaves the
\* reference store unchanged, and the collision itself never ends the run:
\* the run ends at that packet only on a failure of the reference store or
\* when the notification callback cancels.
C3_AutoTagCollisionHarmless ==
    [][(AtPacket /\ AutoTagCollision(heads[tip_i]))
         => /\ refs' = refs
            /\ LET e == run'.log[Len(run'.log)]
               IN  /\ e.kind \in {"exists", "readfail", "writefail"}
                   /\ (e.kind = "exists" /\ ~e.notified) => pc' = "tips"
                   /\ (e.kind = "exists" /\ pc' = "idle") => e.abort /\ e.notified]_vars

\* a run that met such a collision returned success with the local tag intact
C3_Witness ==
    /\ RunSucceeded
    /\ \E e \in Events :
         /\ e.kind = "exists" /\ e.autotag
         /\ e.dst \in DOMAIN refs /\ refs[e.dst] = e.old /\ e.old # e.oid

FirstIsHead == Len(heads) > 0 /\ heads[1].name = GIT_HEAD_FILE
RunStarted == pc = "tips" \/ run.done
FetchHeadOf(rs) == IF GIT_FETCH_HEAD_FILE \in DOMAIN rs THEN rs[GIT_FETCH_HEAD_FILE] ELSE ZeroOid

\* C4: FETCH_HEAD is written (to the first packet's id) exactly when the first
\* packet is HEAD; that packet is not part of the scan; a HEAD packet at a
\* later position leaves FETCH_HEAD alone and is tracked, or not, by the
\* refspec like any other name.
C4_HeadOnlyFirst ==
    RunStarted =>
        /\ (run.fetch_head # "none") <=> FirstIsHead
        /\ run.fetch_head = "written" => FetchHeadOf(refs) = heads[1].oid
        /\ run.fetch_head # "written" => FetchHeadOf(refs) = FetchHeadOf(run.start)
        /\ \A e \in Events :
             /\ FirstIsHead => e.idx > 1
             /\ e.name = GIT_HEAD_FILE =>
                  /\ e.dst # GIT_FETCH_HEAD_FILE
                  /\ (e.kind = "untracked")
                        <=> ~git_refspec_src_matches(remote.fetch, GIT_HEAD_FILE)

\* a run whose first packet was HEAD wrote FETCH_HEAD and scanned from the second
C4_Witness ==
    /\ RunSucceeded /\ FirstIsHead
    /\ run.fetch_head = "written"
    /\ GIT_FETCH_HEAD_FILE \notin DOMAIN run.start
    /\ Len(Log) > 0 /\ Log[1].idx = 2 /\ Log[1].kind = "written"

---------------------------------------------------------------------------
(* Properties of the rename transaction *)

Pre == ren.pre
OldName == ren.pre.remote.name
NewName == ren.new_name
RenameDone == pc = "idle" /\ ren.done
RenameSucceeded == RenameDone /\ result = 0
Loads(cfg, name) ==
    git_remote_load(cfg, name, "none").rc = 0 /\ git_remote_load(cfg, name, "none").out

\* the call renames a remote that has a name and is in the configuration
PersistedCall == ren.count > 0 /\ OldName # NULL /\ Loads(Pre.config, OldName)
HasFetch(r) == ~(r.fetch.src = NULL /\ r.fetch.dst = NULL)
StandardDst(r) == HasFetch(r) /\ IsPrefix(TrackingDir(r.name), r.fetch.dst)

\* C5: after a rename of a persisted remote every ref of the old remote's
\* subtree is found under the new subtree with its object id, and every
\* other ref, those of other remotes included, has kept name and value.
C5_OnlyOwnSubtreeRenamed ==
    (RenameSucceeded /\ PersistedCall) =>
        \A n \in DOMAIN Pre.refs :
            LET moved == TrackingDir(NewName) \o Tail0(n, Len(TrackingDir(OldName)))
            IN  IF IsPrefix(TrackingDir(OldName), n)
                  THEN moved \in DOMAIN refs /\ refs[moved] = Pre.refs[n]
                  ELSE n \in DOMAIN refs /\ refs[n] = Pre.refs[n]

\* C6: after a successful rename of a persisted remote whose fetch
\* destination lies under refs/remotes/<old>/, <old> no longer loads, <new>
\* loads with the url stored before, the fetch refspec in memory and the one
\* stored have the old source and the destination moved under
\* refs/remotes/<new>/, and the problematic-refspec callback was not called.
C6_IdentityMoved ==
    (RenameSucceeded /\ PersistedCall /\ StandardDst(Pre.remote)) =>
        LET l == git_remote_load(config, NewName, "none")
            dst == TrackingDir(NewName)
                       \o Tail0(Pre.remote.fetch.dst, Len(TrackingDir(OldName)))
        IN  /\ git_remote_load(config, OldName, "none").rc = GIT_ENOTFOUND
            /\ l.rc = 0 /\ l.out
            /\ l.remote.url = Pre.config[Key("remote", OldName, "url")]
            /\ l.remote.fetch = [Pre.remote.fetch EXCEPT !.dst = dst]
            /\ remote.fetch = [Pre.remote.fetch EXCEPT !.dst = dst]
            /\ ren.cb_calls = <<>>

\* a persisted remote with tracking refs and the standard refspec was renamed
C6_Witness ==
    /\ RenameSucceeded /\ PersistedCall /\ StandardDst(Pre.remote)
    /\ remote.name = NewName
    /\ refs # Pre.refs

AnonymousCall == ren.count > 0 /\ OldName = NULL
AnonymousWithFetch == AnonymousCall /\ HasFetch(Pre.remote)

\* C7 as stated: a successful rename of a remote without a name, with a fetch
\* refspec, has moved the destination of the refspec in memory under the new
\* name, set the name and saved once, without the problematic-refspec
\* callback.
C7_AnonymousRefspecRemapped ==
    (RenameSucceeded /\ AnonymousWithFetch) =>
        /\ IsPrefix(TrackingDir(NewName), remote.fetch.dst)
        /\ remote.name = NewName
        /\ ren.saves = 1
        /\ ren.cb_calls = <<>>

\* C7 as amended: the rename of a remote without a name, with a fetch
\* refspec, leaves the refspec in memory as it was and hands its text to the
\* problematic-refspec callback exactly once; if the callback fails the call
\* returns GIT_EUSER with nothing changed, and otherwise it sets the name,
\* saves exactly once and returns what the save returned.
C7_AnonymousRefspecReported ==
    (RenameDone /\ AnonymousWithFetch /\ ren.failed_at \notin {"exists", "valid"}) =>
        /\ remote.fetch = Pre.remote.fetch
        /\ ren.cb_calls = << git_refspec__serialize(Pre.remote.fetch) >>
        /\ IF ren.cb_ret < 0
             THEN /\ result = GIT_EUSER
                  /\ remote = Pre.remote /\ config = Pre.config /\ ren.saves = 0
             ELSE /\ remote.name = NewName
                  /\ ren.saves = 1
                  /\ result = 0 <=> ren.failed_at = "none"
                  /\ result = 0 =>
                       /\ Loads(config, NewName)
                       /\ config[Key("remote", NewName, "fetch")]
                              = git_refspec__serialize(Pre.remote.fetch)

\* a remote without a name, with a refspec, was renamed and saved
C7_Witness ==
    /\ RenameSucceeded /\ AnonymousWithFetch
    /\ remote.name = NewName
    /\ Len(ren.cb_calls) = 1
    /\ ~Loads(Pre.config, NewName) /\ Loads(config, NewName)

\* C8: the rename of a remote without a name renames no ref and changes no
\* configuration key outside the section remote.<new>: no key of another
\* section appears, disappears or changes, the branch.<x>.remote links
\* included.
C8_AnonymousTouchesOnlyNewSection ==
    AnonymousCall =>
        /\ refs = Pre.refs
        /\ \A k \in DOMAIN config \cup DOMAIN Pre.config :
             (k[1] # "remote" \/ k[2] # NewName) =>
                 /\ k \in DOMAIN config /\ k \in DOMAIN Pre.config
                 /\ config[k] = Pre.config[k]

\* such a rename wrote the new section beside tracking refs and branch links
C8_Witness ==
    /\ RenameSucceeded /\ AnonymousCall
    /\ config # Pre.config
    /\ \E n \in DOMAIN refs : IsPrefix(GIT_REFS_REMOTES_DIR, n)
    /\ \E k \in DOMAIN config : k[1] = "branch"

\* the fetch refspec of the renamed remote lacks ":refs/remotes/<old>/"
NonStandardCall ==
    /\ ren.count > 0 /\ OldName # NULL
    /\ HasFetch(Pre.remote)
    /\ StrStr(git_refspec__serialize(Pre.remote.fetch),
              <<":">> \o TrackingDir(OldName)) < 0

\* the refspec step of the current call has run
FetchStepRan == pc = "rename_name" \/ (RenameDone /\ ren.failed_at \in {"none", "fetch"})

\* C9: in the rename of a named remote whose fetch refspec lacks
\* ":refs/remotes/<old>/", the refspec step calls the problematic-refspec
\* callback exactly once with the serialized refspec and leaves the refspec
\* in memory and the stored fetch value as they were; unless the callback
\* fails, the rename goes on and ends with success and the new name.
C9_NonStandardRefspecReported ==
    (NonStandardCall /\ FetchStepRan) =>
        /\ ren.cb_calls = << git_refspec__serialize(Pre.remote.fetch) >>
        /\ remote.fetch = Pre.remote.fetch
        /\ git_config_get_string(config, Key("remote", NewName, "fetch"))
               = git_config_get_string(Pre.config, Key("remote", OldName, "fetch"))
        /\ IF ren.cb_ret < 0
             THEN RenameDone /\ result = GIT_EUSER
             ELSE /\ ren.failed_at = "none"
                  /\ RenameDone => (result = 0 /\ remote.name = NewName)

\* such a rename completed after the callback was told
C9_Witness ==
    /\ NonStandardCall /\ RenameSucceeded /\ PersistedCall
    /\ remote.name = NewName /\ OldName # NewName
    /\ Key("remote", NewName, "fetch") \in DOMAIN config

\* C10: a rename to a name that loads as a remote fails with GIT_EEXISTS, a
\* rename to a name that is no valid ref component fails, and either leaves
\* the remote in memory, the configuration and the refs as they were.
C10_RefusedRenameChangesNothing ==
    [][(pc = "idle" /\ ren'.count = ren.count + 1) =>
         LET taken == Loads(config, ren'.new_name)
             invalid == ensure_remote_name_is_valid(ren'.new_name) < 0
         IN  (taken \/ invalid) =>
                 /\ pc' = "idle" /\ ren'.done
                 /\ result' < 0
                 /\ taken => result' = GIT_EEXISTS
                 /\ remote' = remote /\ config' = config /\ refs' = refs]_vars

\* a rename to the name of a configured remote was refused
C10_Witness ==
    /\ RenameDone /\ ren.failed_at = "exists" /\ result = GIT_EEXISTS
    /\ Loads(config, NewName)
    /\ remote = Pre.remote /\ remote.name # NewName

---------------------------------------------------------------------------
(* Properties of the life of a remote *)

\* C11: the name of the remote in memory changes only in git_remote_rename,
\* to the new name, and as its last step.  For a remote that has a name the
\* change is made when no key of section remote.<old> is left, no
\* branch.<x>.remote names <old>, no ref lies under refs/remotes/<old>/ and
\* the refspec step has remapped or reported the fetch refspec; the stores
\* are not touched by the step.  For a remote without a name it follows the
\* refspec step.  No setter, save, load, add, connect, disconnect, ls or tip
\* synchronisation changes the name, and a rename that fails leaves it.
C11_NameUpdatedLast ==
    [][remote'.name # remote.name =>
         /\ remote'.name = ren.new_name
         /\ IF remote.name = NULL
              THEN /\ pc = "rename_anonymous"
                   /\ HasFetch(remote) => Len(ren'.cb_calls) = 1
              ELSE /\ pc = "rename_name"
                   /\ \A k \in DOMAIN config : ~(k[1] = "remote" /\ k[2] = remote.name)
                   /\ BranchKeysOf(config, remote.name) = {}
                   /\ \A n \in DOMAIN refs : ~IsPrefix(TrackingDir(remote.name), n)
                   /\ HasFetch(remote) =>
                        \/ Len(ren.cb_calls) = 1
                        \/ IsPrefix(TrackingDir(ren.new_name), remote.fetch.dst)
                   /\ config' = config /\ refs' = refs
                   /\ result' = 0]_vars

\* a named remote was renamed in a life with another operation and a tip
\* synchronisation, and the stores hold nothing of the old name
C11_Witness ==
    /\ RenameSucceeded /\ PersistedCall
    /\ OldName # NewName /\ remote.name = NewName
    /\ op.count > 0 /\ run.done
    /\ Pre.refs # <<>> /\ refs # Pre.refs

---------------------------------------------------------------------------
(* Properties of persistence *)

\* download_tags as a load resolves it
Resolved(tags) == IF tags = "UNSET" THEN "AUTO" ELSE tags

\* the last two calls were a successful save of the remote in memory and a
\* load of its name, undisturbed by read failures
RoundTrip ==
    /\ op.kind = "load" /\ op.arg.name = remote.name /\ op.arg.fault = "none"
    /\ op.pre.prev = [kind |-> "save", rc |-> 0]

\* the value stored under remote.<name>.<var> is there and is no refspec
StoredSpecBad(cfg, name, var) ==
    LET p == parse_remote_refspec(cfg, Key("remote", name, var))
    IN  p.rc < 0 /\ p.rc # GIT_ENOTFOUND

\* C12 as stated: whatever the configuration held before, a save of a
\* constructed remote followed by a load of its name succeeds and yields the
\* same url, the same pushurl (absent stays absent) and the resolved
\* download_tags.
C12_RoundTrip ==
    RoundTrip =>
        /\ op.rc = 0 /\ op.out.assigned
        /\ op.out.remote.url = remote.url
        /\ op.out.remote.pushurl = remote.pushurl
        /\ op.out.remote.download_tags = Resolved(remote.download_tags)

\* C12 as amended: the load fails exactly when the remote has no fetch (or
\* push) refspec of its own and the configuration holds under
\* remote.<name>.fetch (or .push) a value that is no refspec, which the save
\* left there; otherwise it yields the same url, pushurl and resolved
\* download_tags.
C12_RoundTripUnlessStaleRefspec ==
    RoundTrip =>
        LET stale ==
              \/ ~HasFetch(remote) /\ StoredSpecBad(config, remote.name, "fetch")
              \/ remote.push = EmptyRefspec /\ StoredSpecBad(config, remote.name, "push")
        IN  IF stale THEN op.rc < 0 /\ ~op.out.assigned
            ELSE /\ op.rc = 0 /\ op.out.assigned
                 /\ op.out.remote.url = remote.url
                 /\ op.out.remote.pushurl = remote.pushurl
                 /\ op.out.remote.download_tags = Resolved(remote.download_tags)

\* a remote without pushurl and with unset download_tags was saved over a
\* section that held a pushurl and a tagopt, and was loaded again
C12_Witness ==
    /\ RoundTrip /\ op.rc = 0
    /\ remote.pushurl = NULL /\ remote.download_tags = "UNSET"
    /\ op.out.remote.pushurl = NULL /\ op.out.remote.download_tags = "AUTO"
    /\ op.out.remote.url = Url1
    /\ Key("remote", Str_o, "pushurl") \notin DOMAIN config

\* the last call was a save that returned success
Saved == op.kind = "save" /\ op.rc = 0

\* C13: after a successful save, remote.<name>.tagopt is "--tags" when
\* download_tags is ALL and "--no-tags" when it is NONE; for AUTO and for the
\* unset value the key is absent, whether or not it existed before.
C13_TagoptTable ==
    Saved =>
        LET key == Key("remote", remote.name, "tagopt")
        IN  CASE remote.download_tags = "ALL" ->
                   key \in DOMAIN config /\ config[key] = TAGOPT_ALL
              [] remote.download_tags = "NONE" ->
                   key \in DOMAIN config /\ config[key] = TAGOPT_NONE
              [] OTHER -> key \notin DOMAIN config

\* a remote with download_tags AUTO was saved over a section that held a
\* tagopt, and the key is gone
C13_Witness ==
    /\ Saved
    /\ remote.download_tags = "AUTO"
    /\ Key("remote", remote.name, "tagopt") \in DOMAIN op.pre.config
    /\ Key("remote", remote.name, "tagopt") \notin DOMAIN config

\* C14: a save of the unchanged remote that follows a successful save, and
\* that the store does not fail, succeeds and leaves the configuration as the
\* first save left it.
C14_SaveIdempotent ==
    (op.kind = "save" /\ op.arg = "none" /\ op.pre.prev = [kind |-> "save", rc |-> 0]) =>
        /\ op.rc = 0
        /\ op.pre.remote = remote
        /\ config = op.pre.config

\* a remote without pushurl and with a refspec was saved twice over a
\* section that held other values
C14_Witness ==
    /\ Saved /\ op.pre.prev = [kind |-> "save", rc |-> 0]
    /\ remote.pushurl = NULL /\ HasFetch(remote)
    /\ config = op.pre.config
    /\ Key("remote", remote.name, "tagopt") \in DOMAIN config
    /\ config[Key("remote", remote.name, "url")] = remote.url

\* C15: git_remote_load returns GIT_ENOTFOUND when remote.<name>.url is
\* absent; a failed read of any of the keys makes it return an error and
\* deliver no remote; it returns success only with a remote delivered, whose
\* fields are those the configuration holds.
C15_LoadErrorContract ==
    op.kind = "load" =>
        LET cfg == op.pre.config
            name == op.arg.name
        IN  /\ (op.arg.fault # "url" /\ Key("remote", name, "url") \notin DOMAIN cfg)
                  => op.rc = GIT_ENOTFOUND
            /\ (op.arg.fault # "none" /\ Key("remote", name, "url") \in DOMAIN cfg)
                  => (op.rc < 0 /\ ~op.out.assigned)
            /\ op.rc < 0 => ~op.out.assigned
            /\ op.rc = 0 =>
                  /\ op.out.assigned
                  /\ op.out.remote.name = name
                  /\ op.out.remote.url = cfg[Key("remote", name, "url")]
                  /\ op.out.remote.download_tags \in {"AUTO", "NONE", "ALL"}

\* C16: git_remote_add under a name whose remote is already configured
\* returns GIT_EEXISTS and leaves the configuration as it was.
C16_AddExistingFails ==
    (op.kind = "add" /\ Key("remote", op.arg, "url") \in DOMAIN op.pre.config) =>
        /\ op.rc = GIT_EEXISTS
        /\ config = op.pre.config

---------------------------------------------------------------------------
(* Properties of the results and of the order of the scan *)

\* the run was ended by the update_tips callback, which returned a negative
\* value after the write of the last entry examined
CancelledRun ==
    /\ run.done /\ Log # <<>>
    /\ Log[Len(Log)].abort
    /\ Log[Len(Log)].notified

\* C17: a run that the update_tips callback ended returns GIT_EUSER, the
\* result git_remote_ls gives when its visitor ends the listing, and not the
\* -1 of a failed read or write of the reference store.
C17_CancelIsCancelled ==
    CancelledRun => (result = GIT_EUSER /\ result # -1)

\* the indices of the packets of type GIT_PKT_REF in the advertisement
RefIndices == { i \in 1..Len(heads) : heads[i].type = "REF" }

\* the indices the visitor has to be handed under its returns ret: every ref
\* packet no ref packet before which made the visitor return non-zero
LsExpected(ret) ==
    { i \in RefIndices : \A j \in RefIndices : j < i => ret[j] = 0 }

\* C18: git_remote_ls on a remote without transport, or whose transport is
\* not connected, returns an error and never calls the visitor; otherwise the
\* visitor is handed exactly the ref packets, in the order received, up to
\* and including the first for which it returns non-zero, and the call
\* returns GIT_EUSER in that case and 0 when the visitor never does.
C18_LsContract ==
    op.kind = "ls" =>
        IF transport # "connected"
          THEN op.rc < 0 /\ op.seen = <<>>
          ELSE /\ { op.seen[k] : k \in 1..Len(op.seen) } = LsExpected(op.arg)
               /\ \A k \in 1..Len(op.seen) - 1 : op.seen[k] < op.seen[k + 1]
               /\ op.rc = IF \E i \in RefIndices : op.arg[i] # 0 THEN GIT_EUSER ELSE 0

\* after a connect, the visitor took the first ref packet and stopped the
\* listing at the second with a positive return; a third ref packet was
\* still to come
C18_Witness ==
    /\ op.kind = "ls" /\ transport = "connected"
    /\ op.pre.prev.kind = "connect"
    /\ Len(heads) = 3 /\ RefIndices = {1, 2, 3}
    /\ op.arg[1] = 0 /\ op.arg[2] = 1
    /\ op.seen = <<1, 2>>
    /\ op.rc = GIT_EUSER

\* event k is the last write of the run to its destination
LastWrite(k) ==
    /\ Log[k].kind = "written"
    /\ \A j \in (k + 1)..Len(Log) : ~(Log[j].kind = "written" /\ Log[j].dst = Log[k].dst)

\* C19: the scan ends at the first entry whose read or write fails (other
\* than with GIT_EEXISTS) or whose notification returns a negative value: the
\* run returns an error, no later entry is examined, written or notified, and
\* every ref written before still holds the value written (no rollback),
\* while the refs no entry wrote are as the run found them.
C19_StopsAtFirstFailure ==
    (run.done /\ Log # <<>>) =>
        LET n == Len(Log)
        IN  /\ pc = "idle"
            /\ \A k \in 1..(n - 1) : ~Log[k].abort /\ Log[k].idx < Log[k + 1].idx
            /\ IF Log[n].abort
                 THEN result < 0 /\ tip_i = Log[n].idx
                 ELSE result = 0 /\ Log[n].idx = Len(heads)
            /\ \A k \in 1..n :
                 LastWrite(k) => /\ Log[k].dst \in DOMAIN refs
                                 /\ refs[Log[k].dst] = Log[k].oid
            /\ \A name \in DOMAIN refs :
                 (name # GIT_FETCH_HEAD_FILE /\ \A k \in 1..n : ~(LastWrite(k) /\ Log[k].dst = name))
                     => (name \in DOMAIN run.start /\ refs[name] = run.start[name])

\* the first entry was written, the second failed, the third was never
\* looked at, and the first ref holds its new value
C19_Witness ==
    /\ run.done /\ Len(Log) = 2 /\ Len(heads) = 3
    /\ Log[1].kind = "written" /\ Log[1].idx = 1
    /\ Log[2].abort /\ Log[2].kind = "writefail"
    /\ heads[3].type = "REF" /\ TipClassify(remote, heads[3].name).tracked
    /\ result = -1
    /\ refs[Log[1].dst] = Log[1].oid
    /\ Log[1].dst \notin DOMAIN run.start

\* entry k of the log was followed: not skipped for its packet type, its
\* name, the tag policy or the object check, and its read did not fail
Followed(k) == Log[k].kind \in {"same", "written", "exists"}

\* entries j and k, j before k, are followed, go to one destination with
\* different object ids, and no followed entry after k goes there
Collision(j, k) ==
    /\ j < k
    /\ Followed(j) /\ Followed(k)
    /\ Log[j].dst = Log[k].dst
    /\ Log[j].oid # Log[k].oid
    /\ \A l \in (k + 1)..Len(Log) : ~(Followed(l) /\ Log[l].dst = Log[k].dst)

\* C20 as stated: after a successful run the destination of two colliding
\* entries holds the object id of the later one.
C20_LastWriteWins ==
    (run.done /\ result = 0) =>
        \A j, k \in 1..Len(Log) :
            Collision(j, k) => refs[Log[k].dst] = Log[k].oid

\* C20 as amended: after a successful run the destination of two colliding
\* entries holds the object id of the later one when the later one is written
\* with force (it matches the fetch refspec, or download_tags is ALL); when
\* the later one is followed as an auto-tag its create is not forced, fails
\* with GIT_EEXISTS, and the destination keeps the value it had before.
C20_LastForcedWriteWins ==
    (run.done /\ result = 0) =>
        \A j, k \in 1..Len(Log) :
            Collision(j, k) =>
                /\ Log[k].autotag => (Log[k].old # ZeroOid /\ refs[Log[k].dst] = Log[k].old)
                /\ ~Log[k].autotag => refs[Log[k].dst] = Log[k].oid

\* a branch and a tag were both written to refs/tags/v, the tag last and
\* with force, and the ref holds the tag's object id
C20_Witness ==
    /\ run.done /\ result = 0 /\ Len(Log) >= 2
    /\ Collision(1, 2)
    /\ Log[1].kind = "written" /\ Log[2].kind = "written"
    /\ ~Log[2].autotag
    /\ refs[Log[2].dst] = Log[2].oid
    /\ Log[2].old = Log[1].oid

---------------------------------------------------------------------------
(* Properties of repeated runs and of the tag policy *)

\* C21: a run that follows a run that ended in an error, on the same
\* advertisement, and that returns 0, leaves the reference store as one
\* undisturbed run from the store before the failed run leaves it.
C21_RetryReachesCleanRun ==
    (RunSucceeded /\ run.retry) =>
        refs = CleanRun(remote, run.origin, odb, heads)

\* the failed run had written a ref before it ended, the second run found
\* that ref in place and wrote another
C21_Witness ==
    /\ RunSucceeded /\ run.retry
    /\ run.start # run.origin
    /\ \E k \in 1..Len(Log) : Log[k].kind = "same" /\ Log[k].dst \notin DOMAIN run.origin
    /\ \E k \in 1..Len(Log) : Log[k].kind = "written"
    /\ refs = CleanRun(remote, run.origin, odb, heads)

\* C22: an auto-tag whose create was rejected with GIT_EEXISTS is not
\* notified; the update_tips callback is called only for entries whose
\* destination was written, from the old value to the new one it is told.
C22_CollisionNotNotified ==
    \A k \in 1..Len(Log) :
        /\ Log[k].kind = "exists" => ~Log[k].notified
        /\ Log[k].notified => (Log[k].kind = "written" /\ Log[k].old # Log[k].oid)

\* a valid advertised name that the fetch refspec's source matches
DirectEntry(e) ==
    /\ e.kind \notin {"nonref", "invalid"}
    /\ git_refspec_src_matches(remote.fetch, e.name)

\* a valid advertised tag that the fetch refspec's source does not match
UnmatchedTag(e) ==
    /\ e.kind \notin {"nonref", "invalid"}
    /\ ~git_refspec_src_matches(remote.fetch, e.name)
    /\ git_refspec_src_matches(GIT_REFSPEC_TAGS, e.name)

\* the entry was written over whatever its destination held, or found its
\* destination at the advertised id, or was stopped by the reference store
ForcedEntry(e) ==
    /\ ~e.autotag
    /\ e.kind \in {"same", "written", "readfail", "writefail"}

\* C23: with download_tags ALL an advertised tag the fetch refspec does not
\* match is never an auto-tag: it is written with force whether or not its
\* object is present and whatever the local tag holds.  With download_tags
\* NONE no entry the fetch refspec does not match is tracked.  An entry the
\* fetch refspec matches is written with force under every policy, to the
\* name the refspec gives it.
C23_TagPolicy ==
    \A k \in 1..Len(Log) :
        LET e == Log[k]
        IN  /\ (remote.download_tags = "ALL" /\ UnmatchedTag(e))
                 => (ForcedEntry(e) /\ e.dst = e.name)
            /\ (remote.download_tags = "NONE" /\ e.kind \notin {"nonref", "invalid"}
                  /\ ~git_refspec_src_matches(remote.fetch, e.name))
                 => e.kind = "untracked"
            /\ DirectEntry(e)
                 => (ForcedEntry(e) /\ e.dst = git_refspec_transform_r(remote.fetch, e.name))
            /\ e.kind = "exists" => (e.autotag /\ remote.download_tags = "AUTO")

\* with download_tags ALL a tag whose object is absent was written over a
\* different local tag
C23_Witness ==
    /\ remote.download_tags = "ALL"
    /\ \E k \in 1..Len(Log) :
         /\ UnmatchedTag(Log[k])
         /\ Log[k].kind = "written"
         /\ Log[k].old # ZeroOid
         /\ ~git_odb_exists(odb, Log[k].oid)
         /\ k = Len(Log) => refs[Log[k].dst] = Log[k].oid

====
